---- MODULE Spec2Model ----
(***************************************************************************)
(* Model of src/src/cpm/model.py (TourOptimizer): the decision variables,  *)
(* the constraint families posted on the CP model, the objective,          *)
(* set_min_venues, set_objective_weights, solve and _format_solution; and  *)
(* of src/src/cpm/pareto_analysis.py: run_model_with_weights, the Pareto   *)
(* filter and the process pool of run_pareto_analysis.  Time-slot labels   *)
(* are identified with their index in time_slots (the labels of a grid are *)
(* distinct), and the tables are the projections of the input dictionaries *)
(* on the active day.                                                      *)
(***************************************************************************)
EXTENDS Integers, Sequences, FiniteSets, TLC

\* ---------------------------------------------------------------- bounds
NV == 2
NSlots == 4

\* a catalogue of three venues on a grid of five slots, for the schedules in
\* which a venue follows a venue that itself follows another
ChainNV == 3
ChainNSlots == 5
\* the longest list of candidates handed to the Pareto filter
MaxSolutions == 3
\* the weight combinations that run_pareto_analysis hands to the pool, and
\* the worker processes of the pool
NTasks == 3
MaxWorkers == 2

\* ------------------------------------------------------------- constants
SlotMinutes == 30
DefaultMinVenues == 1
max_crowd_level == 100
\* the floor that run_model_with_weights sets
ExplorerMinVenues == 3

Max(a, b) == IF a >= b THEN a ELSE b
Min(a, b) == IF a <= b THEN a ELSE b
SetMin(S) == CHOOSE m \in S : \A s \in S : m <= s
SetMax(S) == CHOOSE m \in S : \A s \in S : m >= s

\* the sum of f over the keys in S
RECURSIVE SumOver(_, _)
SumOver(f, S) ==
    IF S = {} THEN 0
    ELSE LET k == CHOOSE q \in S : TRUE
         IN  f[k] + SumOver(f, S \ {k})

VARIABLES
    n_venues,          \* len(venues); the venues are 1..n_venues
    n_slots,           \* len(time_slots); the labels are 0..n_slots - 1
    dwell_times,       \* venue -> dwell time, in quarters of an hour
    dwell_slots,       \* venue -> number of 30-minute slots
    venue_open_slots,  \* partial: venue -> valid slots on the active day
    travel_times,      \* partial: <<from, to, departure label>> -> minutes
    crowd_levels,      \* partial: <<venue, label>> -> level
    tour_start_slot,
    tour_end_slot,
    min_venues,        \* self.min_venues
    w_travel, w_crowd, w_venues,   \* the weights, in tenths
    division,          \* what `/` of the CP library does on an expression
    model,             \* the CP model as built: see BuildModel
    x_val, t_val, p_val,   \* values of the decision variables after a solve
    outcome,           \* which return statement of solve() was taken
    result,            \* the value returned by the last solve()
    all_solutions,     \* the candidates handed to the Pareto filter
    pareto_solutions,  \* what identify_pareto_optimal_solutions returned
    solver_call,       \* the last solve(): its time_limit, what the solver got
    tasks,             \* run_pareto_analysis: the work items of executor.map
    completion,        \* the work items in the order in which they ended
    yielded,           \* the work items whose result the main loop has taken
    phase              \* where run_pareto_analysis stands

vars == << n_venues, n_slots, dwell_times, dwell_slots, venue_open_slots,
           travel_times, crowd_levels, tour_start_slot, tour_end_slot,
           min_venues, w_travel, w_crowd, w_venues, division, model,
           x_val, t_val, p_val, outcome, result,
           all_solutions, pareto_solutions, solver_call,
           tasks, completion, yielded, phase >>

\* what the constructor receives; the library in use is fixed for a run
inputs == << n_venues, n_slots, dwell_times, dwell_slots, venue_open_slots,
             travel_times, crowd_levels, tour_start_slot, tour_end_slot,
             division >>

weights == << w_travel, w_crowd, w_venues >>

\* the state of the Pareto filter, which no method of TourOptimizer touches
pareto == << all_solutions, pareto_solutions >>

\* the state of the process pool of run_pareto_analysis
analysis == << tasks, completion, yielded, phase >>

Venues == 1..n_venues
Slots == 0..(n_slots - 1)
Positions == 0..n_venues

\* --------------------------------------------------------- input domains
\* dwell times of 0.25 h and 1 h, in quarters of an hour
DwellTimeChoices ==
    { [v \in Venues |-> 1],
      [v \in Venues |-> 4],
      [v \in Venues |-> IF v = 1 THEN 4 ELSE 1],
      [v \in Venues |-> IF v = 1 THEN 1 ELSE 4] }

AllSlotsList == Slots
GapSlotsList == Slots \ {2}
\* the tables passed as venue_open_slots: no table, an empty list or no key
\* for the first venue, lists with a closed period between two open ones
OpenTableChoices ==
    { [v \in {} |-> {}],
      [v \in Venues |-> IF v = 1 THEN {} ELSE AllSlotsList],
      [v \in Venues \ {1} |-> GapSlotsList],
      [v \in Venues |-> GapSlotsList],
      [v \in Venues |-> IF v = 1 THEN GapSlotsList ELSE AllSlotsList] }

TourWindowChoices == { <<0, n_slots - 1>>, <<1, 2>>, <<0, 2>> }

TravelKeys == { k \in Venues \X Venues \X Slots : k[1] # k[2] }
TravelEmpty == [k \in {} |-> 0]
TravelUniform == [k \in TravelKeys |-> 30]
TravelVarying ==
    [k \in TravelKeys |->
        IF k[1] < k[2] THEN (IF k[3] < 2 THEN 20 ELSE 45) ELSE 45]
TravelSparse == [k \in { q \in TravelKeys : q[3] % 2 = 1 } |-> 30]
\* a table that knows the travel times from the first venue only
TravelFromFirst == [k \in { q \in TravelKeys : q[1] = 1 } |-> 30]
\* a table that knows the travel times for departure at slot 3 only
TravelLate == [k \in { q \in TravelKeys : q[3] = 3 } |-> 30]
TravelTableChoices ==
    { TravelEmpty, TravelUniform, TravelVarying, TravelSparse }

CrowdKeys == Venues \X Slots
CrowdEmpty == [k \in {} |-> 0]
CrowdSparse ==
    [k \in { q \in CrowdKeys : q[2] % 2 = 0 } |-> 10 * k[1] + 20 * k[2]]
CrowdTableChoices == { CrowdEmpty, CrowdSparse }

\* ------------------------------------------------------------ constructor
\* max(1, int(hours * 2)), hours given in quarters
DwellSlotsOf(q) == Max(1, (q * 2) \div 4)

\* a falsy table (None or {}) defaults to every slot for every venue
OpenSlotsOf(table) ==
    IF DOMAIN table = {} THEN [v \in Venues |-> Slots] ELSE table

\* self.venue_open_slots.get((venue, self.day), [])
valid_slots(v) ==
    IF v \in DOMAIN venue_open_slots THEN venue_open_slots[v] ELSE {}

\* variant of travel_slots_of: the minutes are rounded down
travel_slots_of_floor(minutes) == minutes \div SlotMinutes

\* (travel_time + 29) // 30
travel_slots_of(minutes) == (minutes + 29) \div SlotMinutes

\* the weights as the objective reads them
current_weights ==
    [w_travel |-> w_travel, w_crowd |-> w_crowd, w_venues |-> w_venues]

\* Model(): no constraint, no objective
NewModel ==
    [min_venues |-> 0,
     families |-> [time_window |-> 0, sequence |-> 0, overlap |-> 0],
     constraint_vars |-> "none",
     objective |-> [w_travel |-> 0, w_crowd |-> 0, w_venues |-> 0],
     objective_vars |-> "none"]

\* _create_variables: t, p and x are new objects; what was posted before
\* refers to the old ones
create_variables(m) ==
    [m EXCEPT !.constraint_vars = IF @ = "none" THEN "none" ELSE "stale",
              !.objective_vars = IF @ = "none" THEN "none" ELSE "stale"]

\* the three families posted on the current variables, with the floor
post_constraints(m, floor) ==
    [m EXCEPT !.min_venues = floor,
              !.families = [f \in DOMAIN @ |-> @[f] + 1],
              !.constraint_vars = "current"]

\* _set_objective: model.minimize replaces the objective by one built from
\* the weights w on the current variables
set_objective(m, w) ==
    [m EXCEPT !.objective = w, !.objective_vars = "current"]

\* _add_constraints: a fresh model on fresh variables, the three families,
\* then the objective with the weights of the moment
BuildModelWith(floor, w) ==
    set_objective(post_constraints(create_variables(NewModel), floor), w)

BuildModel(floor) == BuildModelWith(floor, current_weights)

\* the weights the constructor sets: 1.0, 0.5 and -20.0
DefaultWeights == [w_travel |-> 10, w_crowd |-> 5, w_venues |-> 0 - 200]

NoValue == [v \in {} |-> 0]
NotCalled == [kind |-> "NotCalled"]
None == [kind |-> "None"]

\* no solve() was called and run_pareto_analysis is not running
NoAnalysis ==
    /\ solver_call = NotCalled
    /\ tasks = << >>
    /\ completion = << >>
    /\ yielded = << >>
    /\ phase = "none"

Init ==
    /\ n_venues \in 1..NV
    /\ n_slots = NSlots
    /\ dwell_times \in DwellTimeChoices
    /\ dwell_slots = [v \in Venues |-> DwellSlotsOf(dwell_times[v])]
    /\ \E table \in OpenTableChoices : venue_open_slots = OpenSlotsOf(table)
    /\ travel_times \in TravelTableChoices
    /\ crowd_levels \in CrowdTableChoices
    /\ \E w \in TourWindowChoices :
           tour_start_slot = w[1] /\ tour_end_slot = w[2]
    /\ min_venues = DefaultMinVenues
    /\ w_travel = DefaultWeights.w_travel
    /\ w_crowd = DefaultWeights.w_crowd
    /\ w_venues = DefaultWeights.w_venues
    /\ division = "exact"
    /\ model = BuildModel(DefaultMinVenues)
    /\ x_val = NoValue /\ t_val = NoValue /\ p_val = NoValue
    /\ outcome = "none"
    /\ result = NotCalled
    /\ all_solutions = << >>
    /\ pareto_solutions = NotCalled
    /\ NoAnalysis

\* ------------------------------------------------------------ constraints
n_selected(x) == Cardinality({ i \in Venues : x[i] })

\* variant of add_time_window_constraints: only the first and the last valid
\* slot bound the visit, the slots between them are not looked at
add_time_window_constraints_no_gap_check(x, t) ==
    \A i \in Venues :
        LET vs == valid_slots(i)
            d == dwell_slots[i]
        IN  IF vs # {}
            THEN LET earliest_valid == SetMin(vs)
                     latest_valid == SetMax(vs)
                     latest_start == latest_valid - d + 1
                 IN  /\ x[i] => ( /\ t[i] >= Max(tour_start_slot, earliest_valid)
                                  /\ t[i] <= Min(tour_end_slot, latest_start) )
                     /\ x[i] => (t[i] + d <= latest_valid + 1)
            ELSE ~ x[i]

\* variant of add_time_window_constraints: a venue without valid slots is
\* skipped instead of being forced out
add_time_window_constraints_skip_closed(x, t) ==
    \A i \in Venues :
        LET vs == valid_slots(i)
            d == dwell_slots[i]
        IN  (vs # {}) =>
                 LET earliest_valid == SetMin(vs)
                     latest_valid == SetMax(vs)
                     latest_start == latest_valid - d + 1
                 IN  /\ x[i] => ( /\ t[i] >= Max(tour_start_slot, earliest_valid)
                                  /\ t[i] <= Min(tour_end_slot, latest_start) )
                     /\ x[i] => (t[i] + d <= latest_valid + 1)
                     /\ \A s \in Slots :
                            (~ \A slot \in s..(s + d - 1) : slot \in vs)
                                => (x[i] => t[i] # s)

\* _add_time_window_constraints
add_time_window_constraints(x, t) ==
    \A i \in Venues :
        LET vs == valid_slots(i)
            d == dwell_slots[i]
        IN  IF vs # {}
            THEN LET earliest_valid == SetMin(vs)
                     latest_valid == SetMax(vs)
                     latest_start == latest_valid - d + 1
                 IN  /\ x[i] => ( /\ t[i] >= Max(tour_start_slot, earliest_valid)
                                  /\ t[i] <= Min(tour_end_slot, latest_start) )
                     /\ x[i] => (t[i] + d <= latest_valid + 1)
                     /\ \A s \in Slots :
                            (~ \A slot \in s..(s + d - 1) : slot \in vs)
                                => (x[i] => t[i] # s)
            ELSE ~ x[i]

\* variant of sequence_position_constraints: selection and position are not
\* tied to each other
sequence_position_constraints_untied(x, p) ==
    /\ n_selected(x) >= model.min_venues
    /\ \A i \in Venues : \A pos \in 1..n_venues :
           (p[i] = pos) => (pos <= n_selected(x))
    /\ \A pos \in 1..n_venues :
           LET pos_count == Cardinality({ i \in Venues : p[i] = pos })
           IN  /\ (pos <= n_selected(x)) => (pos_count = 1)
               /\ (pos > n_selected(x)) => (pos_count = 0)

\* _add_sequence_constraints, parts 1 and 2: selection, floor, positions
sequence_position_constraints(x, p) ==
    /\ \A i \in Venues : /\ x[i] => p[i] > 0
                         /\ (~ x[i]) => p[i] = 0
    /\ n_selected(x) >= model.min_venues
    /\ \A i \in Venues : \A pos \in 1..n_venues :
           (p[i] = pos) => (pos <= n_selected(x))
    /\ \A pos \in 1..n_venues :
           LET pos_count == Cardinality({ i \in Venues : p[i] = pos })
           IN  /\ (pos <= n_selected(x)) => (pos_count = 1)
               /\ (pos > n_selected(x)) => (pos_count = 0)

\* _add_sequence_constraints, parts 3 and 4: travel and closing times
sequence_travel_constraints(x, t, p) ==
    \A i \in Venues : \A j \in Venues :
        (valid_slots(i) # {} /\ i # j /\ valid_slots(j) # {}) =>
            LET latest_valid_i == SetMax(valid_slots(i))
                dwell_i == dwell_slots[i]
                latest_valid_j == SetMax(valid_slots(j))
                dwell_j == dwell_slots[j]
                is_consecutive == (p[j] = p[i] + 1)
                both_selected == x[i] /\ x[j]
            IN  \A slot_idx \in Slots :
                    LET i_end_slot == slot_idx + dwell_i
                        key == <<i, j, i_end_slot>>
                    IN  IF i_end_slot > latest_valid_i
                        THEN ~ (x[i] /\ t[i] = slot_idx)
                        ELSE (i_end_slot < n_slots /\ key \in DOMAIN travel_times) =>
                                 LET j_earliest_start ==
                                         i_end_slot + travel_slots_of(travel_times[key])
                                     j_latest_start == latest_valid_j - dwell_j
                                 IN  (~ (both_selected /\ is_consecutive
                                            /\ t[i] = slot_idx))
                                     \/ ( /\ t[j] >= j_earliest_start
                                          /\ t[j] <= j_latest_start )

add_sequence_constraints(x, t, p) ==
    /\ sequence_position_constraints(x, p)
    /\ sequence_travel_constraints(x, t, p)

\* variant of add_overlap_constraints: the pairwise disjunction is missing
add_overlap_constraints_no_disjunction(x, t, p) ==
    \A i \in Venues : \A j \in Venues :
        (i < j) =>
            LET both_selected == x[i] /\ x[j]
                dwell_i == dwell_slots[i]
            IN  /\ (~ both_selected) \/ (p[i] # p[j])
                /\ \A slot_idx \in Slots :
                       LET key == <<i, j, slot_idx>>
                       IN  (key \in DOMAIN travel_times) =>
                               \/ ~ (both_selected /\ p[j] = p[i] + 1
                                        /\ t[i] = slot_idx)
                               \/ t[j] >= t[i] + dwell_i
                                            + travel_slots_of(travel_times[key])

\* _add_overlap_constraints
add_overlap_constraints(x, t, p) ==
    \A i \in Venues : \A j \in Venues :
        (i < j) =>
            LET both_selected == x[i] /\ x[j]
                dwell_i == dwell_slots[i]
                dwell_j == dwell_slots[j]
            IN  /\ \/ ~ both_selected
                   \/ t[i] + dwell_i <= t[j]
                   \/ t[j] + dwell_j <= t[i]
                /\ (~ both_selected) \/ (p[i] # p[j])
                /\ \A slot_idx \in Slots :
                       LET key == <<i, j, slot_idx>>
                       IN  (key \in DOMAIN travel_times) =>
                               \/ ~ (both_selected /\ p[j] = p[i] + 1
                                        /\ t[i] = slot_idx)
                               \/ t[j] >= t[i] + dwell_i
                                            + travel_slots_of(travel_times[key])

\* _add_constraints: every family, posted on a fresh model
add_constraints(x, t, p) ==
    /\ add_time_window_constraints(x, t)
    /\ add_sequence_constraints(x, t, p)
    /\ add_overlap_constraints(x, t, p)

\* the assignments of the decision variables that the CP model admits
SatisfyingAssignments ==
    UNION { { [x |-> xp[1], p |-> xp[2], t |-> tv] :
                tv \in { tt \in [Venues -> Slots] :
                            add_constraints(xp[1], tt, xp[2]) } } :
            xp \in { q \in [Venues -> BOOLEAN] \X [Venues -> Positions] :
                        sequence_position_constraints(q[1], q[2]) } }


\* -------------------------------------------------------------- objective
\* total_travel_time of _set_objective: for venue i right after venue j in
\* position order, the entry (j, i, label of the slot at which j starts)
objective_travel(a) ==
    SumOver(travel_times,
            { k \in DOMAIN travel_times :
                  /\ a.p[k[1]] \in 1..(n_venues - 1)
                  /\ a.p[k[2]] = a.p[k[1]] + 1
                  /\ k[3] = a.t[k[1]] })

\* total_crowd_level of _set_objective: the entries of the slots that a
\* selected venue occupies
objective_crowd(a) ==
    SumOver(crowd_levels,
            { k \in DOMAIN crowd_levels :
                  /\ a.x[k[1]]
                  /\ k[2] \in a.t[k[1]]..(a.t[k[1]] + dwell_slots[k[1]] - 1)
                  /\ k[2] < n_slots })

\* max(travel_times.values(), default=1)
max_travel_time ==
    IF DOMAIN travel_times = {} THEN 1
    ELSE SetMax({ travel_times[k] : k \in DOMAIN travel_times })

travel_scale == Max(1, max_travel_time)
crowd_scale == Max(1, max_crowd_level * n_venues * n_slots)
venues_scale == Max(1, n_venues)

\* the objective with the weights w at the assignment a.  With the exact
\* quotient it is given times travel_scale * crowd_scale * venues_scale, so
\* that it stays an integer; the factor is positive and the same for every
\* assignment.  The weights are in tenths in both cases.
objective_value(a, w) ==
    IF division = "exact"
    THEN w.w_travel * objective_travel(a) * crowd_scale * venues_scale
         + w.w_crowd * objective_crowd(a) * travel_scale * venues_scale
         + w.w_venues * n_selected(a.x) * travel_scale * crowd_scale
    ELSE w.w_travel * (objective_travel(a) \div travel_scale)
         + w.w_crowd * (objective_crowd(a) \div crowd_scale)
         + w.w_venues * (n_selected(a.x) \div venues_scale)

least_objective(S, w) == SetMin({ objective_value(a, w) : a \in S })

optimal_with(S, w, least) == { a \in S : objective_value(a, w) = least }

\* the assignments of S at which the objective with the weights w is least
OptimalAmong(S, w) ==
    IF S = {} THEN {}
    ELSE UNION { optimal_with(S, w, least) :
                     least \in { least_objective(S, w) } }

\* ------------------------------------------------------- _format_solution
NoTravel == -1
NoVisit == [venue |-> 0]

\* sorted(selected_indices, key=lambda i: p_val[i]); the sort is stable
ordered_indices(x, p) ==
    LET selected_indices == { i \in Venues : x[i] }
        k == Cardinality(selected_indices)
    IN  CHOOSE s \in [1..k -> selected_indices] :
            \A a \in 1..k : \A b \in 1..k :
                (a < b) => \/ p[s[a]] < p[s[b]]
                           \/ (p[s[a]] = p[s[b]] /\ s[a] < s[b])

\* the start slot the repair gives the venue at index idx of the order
\* (idx >= 2), from the raw end of the venue before it
repaired_start(solver_start_slot, prev_end_slot, travel_key) ==
    IF travel_key \in DOMAIN travel_times
    THEN IF prev_end_slot + travel_slots_of(travel_times[travel_key]) >= n_slots
         THEN [skip |-> TRUE, start_slot |-> 0]
         ELSE IF Max(solver_start_slot,
                     prev_end_slot + travel_slots_of(travel_times[travel_key]))
                   >= n_slots
              THEN [skip |-> TRUE, start_slot |-> 0]
              ELSE [skip |-> FALSE,
                    start_slot |->
                        Max(solver_start_slot,
                            prev_end_slot
                                + travel_slots_of(travel_times[travel_key]))]
    ELSE [skip |-> FALSE,
          start_slot |-> Max(solver_start_slot, prev_end_slot + 1)]

format_start(idx, ordered, t) ==
    IF idx = 1
    THEN [skip |-> FALSE, start_slot |-> t[ordered[idx]]]
    ELSE repaired_start(
             t[ordered[idx]],
             t[ordered[idx - 1]] + dwell_slots[ordered[idx - 1]],
             <<ordered[idx - 1], ordered[idx],
               Min(t[ordered[idx - 1]] + dwell_slots[ordered[idx - 1]],
                   n_slots - 1)>>)

\* the warning attached to a visit of the venue in start_slot..end_slot - 1
visit_warning(venue, start_slot, end_slot) ==
    IF \A slot \in start_slot..(end_slot - 1) : slot \in valid_slots(venue)
    THEN "none"
    ELSE IF valid_slots(venue) # {} THEN "past closing time"
         ELSE "closed on this day"

\* the crowd entries of the slots of a visit
visit_crowd_keys(venue, start_slot, end_slot) ==
    { k \in DOMAIN crowd_levels :
          /\ k[1] = venue
          /\ k[2] \in start_slot..(Min(end_slot, n_slots) - 1) }

\* crowd_level_avg: sum(crowd_levels) / len(crowd_levels), or 0
visit_avg_crowd(keys) ==
    IF keys # {}
    THEN [num |-> SumOver(crowd_levels, keys), den |-> Cardinality(keys)]
    ELSE [num |-> 0, den |-> 1]

\* the travel table has an entry from the visit at index idx, which ends
\* at label end_time, to the venue after it in the order
has_next_entry(idx, ordered, end_time) ==
    /\ idx < Len(ordered)
    /\ <<ordered[idx], ordered[idx + 1], end_time>> \in DOMAIN travel_times

\* travel_time_to_next of the visit at index idx
visit_travel_to_next(idx, ordered, end_time) ==
    IF has_next_entry(idx, ordered, end_time)
    THEN travel_times[<<ordered[idx], ordered[idx + 1], end_time>>]
    ELSE NoTravel

\* what the visit at index idx adds to total_travel_time
visit_travel_added(idx, ordered, end_time) ==
    IF has_next_entry(idx, ordered, end_time)
    THEN travel_times[<<ordered[idx], ordered[idx + 1], end_time>>]
    ELSE 0

\* the visit appended for the venue at index idx, scheduled at start_slot
visit_record(idx, ordered, venue, start_slot, end_slot) ==
    [status |-> "visit",
     visit |-> [venue |-> venue,
                start_time |-> Min(start_slot, n_slots - 1),
                end_time |-> Min(end_slot, n_slots - 1),
                dwell_time_hours |-> dwell_times[venue],
                crowd_level_avg |->
                    visit_avg_crowd(visit_crowd_keys(venue, start_slot, end_slot)),
                travel_time_to_next |->
                    visit_travel_to_next(idx, ordered, Min(end_slot, n_slots - 1)),
                warning |-> visit_warning(venue, start_slot, end_slot)],
     travel |-> visit_travel_added(idx, ordered, Min(end_slot, n_slots - 1)),
     crowd |-> SumOver(crowd_levels,
                       visit_crowd_keys(venue, start_slot, end_slot))]

\* the checks on the repaired start: "skip" (continue), "raise" (IndexError
\* on time_slots[start_slot] in the error message) or a visit
visit_at(idx, ordered, st) ==
    IF st.skip
    THEN [status |-> "skip", visit |-> NoVisit, travel |-> 0, crowd |-> 0]
    ELSE IF st.start_slot + dwell_slots[ordered[idx]] >= n_slots
    THEN [status |-> IF st.start_slot >= n_slots THEN "raise" ELSE "skip",
          visit |-> NoVisit, travel |-> 0, crowd |-> 0]
    ELSE visit_record(idx, ordered, ordered[idx], st.start_slot,
                      st.start_slot + dwell_slots[ordered[idx]])

\* one iteration of the loop over ordered_indices
format_visit(idx, ordered, t) == visit_at(idx, ordered, format_start(idx, ordered, t))

\* the accumulators after an iteration that ended as `it`
loop_step(acc, it) ==
    IF it.status = "raise" THEN [acc EXCEPT !.raised = TRUE]
    ELSE IF it.status = "skip" THEN acc
    ELSE [raised |-> FALSE,
          schedule |-> Append(acc.schedule, it.visit),
          total_travel_time |-> acc.total_travel_time + it.travel,
          total_crowd_level |-> acc.total_crowd_level + it.crowd]

\* the loop over ordered_indices, from index idx on; an exception ends it
RECURSIVE format_loop(_, _, _, _)
format_loop(idx, ordered, t, acc) ==
    IF idx > Len(ordered) \/ acc.raised THEN acc
    ELSE format_loop(idx + 1, ordered, t,
                     loop_step(acc, format_visit(idx, ordered, t)))

\* {visit["venue"]: visit["start_time"] for visit in schedule}
start_times_of(schedule) ==
    [v \in { schedule[k].venue : k \in 1..Len(schedule) } |->
        schedule[CHOOSE q \in 1..Len(schedule) :
                     /\ schedule[q].venue = v
                     /\ \A r \in 1..Len(schedule) :
                            schedule[r].venue = v => r <= q].start_time]

\* the metrics of the returned dictionary
metrics_of(selected_venues, total_travel_time, total_crowd_level) ==
    [total_venues |-> Len(selected_venues),
     total_travel_time_minutes |-> total_travel_time,
     average_travel_time |->
         IF Len(selected_venues) > 1
         THEN [num |-> total_travel_time, den |-> Len(selected_venues) - 1]
         ELSE [num |-> 0, den |-> 1],
     total_crowd_exposure |-> total_crowd_level,
     average_crowd_level |->
         IF Len(selected_venues) > 0
         THEN [num |-> total_crowd_level,
               den |-> SumOver(dwell_slots,
                               { selected_venues[k] :
                                     k \in 1..Len(selected_venues) })]
         ELSE [num |-> 0, den |-> 1]]

\* the dictionary returned, or the exception raised on the way
format_result(selected_venues, acc) ==
    [raised |-> acc.raised,
     value |-> [kind |-> "dict",
                selected_venues |-> selected_venues,
                start_times |-> start_times_of(acc.schedule),
                metrics |-> metrics_of(selected_venues, acc.total_travel_time,
                                       acc.total_crowd_level),
                schedule |-> acc.schedule]]

InitialAcc ==
    [raised |-> FALSE, schedule |-> << >>,
     total_travel_time |-> 0, total_crowd_level |-> 0]

format_ordered(ordered, t) ==
    format_result(ordered, format_loop(1, ordered, t, InitialAcc))

format_solution(x, t, p) == format_ordered(ordered_indices(x, p), t)

\* ---------------------------------------------------------------- actions
\* solve(self, num_cores=4, time_limit=300)
DefaultTimeLimit == 300

\* a call solve(time_limit=...): it builds CPM_ortools(self.model) and calls
\* solver.solve() without any argument
SolverCall(time_limit) ==
    [kind |-> "called", time_limit |-> time_limit, solver_args |-> {}]

MinVenuesArgs == (0 - 1)..(NV + 1)

\* variant of set_min_venues: the argument is taken as it is
set_min_venues_no_clamp(m) ==
    /\ min_venues' = m
    /\ model' = BuildModel(min_venues')
    /\ x_val' = NoValue /\ t_val' = NoValue /\ p_val' = NoValue
    /\ outcome' = "none"
    /\ result' = NotCalled
    /\ solver_call' = NotCalled
    /\ UNCHANGED << inputs, weights, pareto, analysis >>

\* set_min_venues(m): the floor is clamped and the whole model is rebuilt
\* on fresh decision variables
set_min_venues(m) ==
    /\ min_venues' = Max(1, m)
    /\ model' = BuildModel(min_venues')
    /\ x_val' = NoValue /\ t_val' = NoValue /\ p_val' = NoValue
    /\ outcome' = "none"
    /\ result' = NotCalled
    /\ solver_call' = NotCalled
    /\ UNCHANGED << inputs, weights, pareto, analysis >>

\* solve(): the solver finds no assignment
solve_no_solution ==
    /\ outcome = "none"
    /\ SatisfyingAssignments = {}
    /\ outcome' = "no_solution"
    /\ result' = None
    /\ x_val' = NoValue /\ t_val' = NoValue /\ p_val' = NoValue
    /\ solver_call' = SolverCall(DefaultTimeLimit)
    /\ UNCHANGED << inputs, min_venues, weights, model, pareto, analysis >>

\* solve(): the solver returns an assignment, which is formatted; an
\* exception raised by the formatting is caught and None is returned
solve_found ==
    /\ outcome = "none"
    /\ \E a \in SatisfyingAssignments :
        \E r \in { format_solution(a.x, a.t, a.p) } :
            /\ x_val' = a.x /\ t_val' = a.t /\ p_val' = a.p
            /\ outcome' = IF r.raised THEN "exception" ELSE "solution"
            /\ result' = IF r.raised THEN None ELSE r.value
    /\ solver_call' = SolverCall(DefaultTimeLimit)
    /\ UNCHANGED << inputs, min_venues, weights, model, pareto, analysis >>

\* solve() on a model that has assignments: the solver returns one at which
\* the objective of the model is least
solve_optimal ==
    /\ outcome = "none"
    /\ \E S \in { SatisfyingAssignments } :
        \E a \in OptimalAmong(S, model.objective) :
        \E r \in { format_solution(a.x, a.t, a.p) } :
            /\ x_val' = a.x /\ t_val' = a.t /\ p_val' = a.p
            /\ outcome' = IF r.raised THEN "exception" ELSE "solution"
            /\ result' = IF r.raised THEN None ELSE r.value
    /\ solver_call' = SolverCall(DefaultTimeLimit)
    /\ UNCHANGED << inputs, min_venues, weights, model, pareto, analysis >>

\* the time budgets passed to solve(), in seconds
TimeLimitArgs == { 1, DefaultTimeLimit }

\* solve(time_limit=time_limit): the solver has no assignment and None is
\* returned, or it returns one at which the objective is least
solve_within(time_limit) ==
    /\ outcome = "none"
    /\ solver_call' = SolverCall(time_limit)
    /\ \E S \in { SatisfyingAssignments } :
        \/ /\ S = {}
           /\ outcome' = "no_solution"
           /\ result' = None
           /\ x_val' = NoValue /\ t_val' = NoValue /\ p_val' = NoValue
        \/ \E a \in OptimalAmong(S, model.objective) :
           \E r \in { format_solution(a.x, a.t, a.p) } :
               /\ x_val' = a.x /\ t_val' = a.t /\ p_val' = a.p
               /\ outcome' = IF r.raised THEN "exception" ELSE "solution"
               /\ result' = IF r.raised THEN None ELSE r.value
    /\ UNCHANGED << inputs, min_venues, weights, model, pareto, analysis >>

\* the weight triples passed in, in tenths
WeightChoices ==
    { DefaultWeights,
      [w_travel |-> 1, w_crowd |-> 1, w_venues |-> 0 - 10],
      [w_travel |-> 10, w_crowd |-> 1, w_venues |-> 0 - 10] }

\* variant of set_objective_weights: the weights are stored, the objective
\* is not set again
set_objective_weights_no_rebuild(w) ==
    /\ w_travel' = w.w_travel
    /\ w_crowd' = w.w_crowd
    /\ w_venues' = w.w_venues
    /\ model' = model
    /\ x_val' = NoValue /\ t_val' = NoValue /\ p_val' = NoValue
    /\ outcome' = "none"
    /\ result' = NotCalled
    /\ solver_call' = NotCalled
    /\ UNCHANGED << inputs, min_venues, pareto, analysis >>

\* set_objective_weights(w): the weights are stored and the objective of
\* the model is set again; constraints and variables stay
set_objective_weights(w) ==
    /\ w_travel' = w.w_travel
    /\ w_crowd' = w.w_crowd
    /\ w_venues' = w.w_venues
    /\ model' = set_objective(model, w)
    /\ x_val' = NoValue /\ t_val' = NoValue /\ p_val' = NoValue
    /\ outcome' = "none"
    /\ result' = NotCalled
    /\ solver_call' = NotCalled
    /\ UNCHANGED << inputs, min_venues, pareto, analysis >>

\* run_model_with_weights(w): a new optimizer on the same data, with the
\* floor ExplorerMinVenues; the weights are then assigned to its attributes
\* and it is solved; a solution is tagged with the weights.  A call reads
\* nothing of the optimizer of the call before it, so the calls are taken
\* from the state in which the data is loaded.
run_model_with_weights(w) ==
    /\ outcome = "none"
    /\ UNCHANGED << inputs, pareto, analysis >>
    /\ solver_call' = SolverCall(DefaultTimeLimit)
    /\ min_venues' = Max(1, ExplorerMinVenues)
    /\ model' = BuildModelWith(min_venues', DefaultWeights)
    /\ w_travel' = w.w_travel
    /\ w_crowd' = w.w_crowd
    /\ w_venues' = w.w_venues
    /\ \E S \in { SatisfyingAssignments' } :
        \/ /\ S = {}
           /\ outcome' = "no_solution"
           /\ result' = None
           /\ x_val' = NoValue /\ t_val' = NoValue /\ p_val' = NoValue
        \/ \E a \in OptimalAmong(S, model'.objective) :
           \E r \in { format_solution(a.x, a.t, a.p) } :
               /\ x_val' = a.x /\ t_val' = a.t /\ p_val' = a.p
               /\ outcome' = IF r.raised THEN "exception" ELSE "solution"
               /\ result' = IF r.raised THEN None
                             ELSE r.value @@ [weights |-> w]

Next ==
    \/ \E m \in MinVenuesArgs : set_min_venues(m)
    \/ solve_no_solution
    \/ solve_found

Spec == Init /\ [][Next]_vars

\* what the constructor sets whatever it is given
Constructed ==
    /\ min_venues = DefaultMinVenues
    /\ w_travel = DefaultWeights.w_travel
    /\ w_crowd = DefaultWeights.w_crowd
    /\ w_venues = DefaultWeights.w_venues
    /\ model = BuildModel(DefaultMinVenues)
    /\ x_val = NoValue /\ t_val = NoValue /\ p_val = NoValue
    /\ outcome = "none"
    /\ result = NotCalled

\* the constructor on a catalogue of ChainNV venues open all day, with dwell
\* times of one slot (two for the last venue in one case), and an empty, a
\* sparse or a complete travel table
InitChain ==
    /\ n_venues = ChainNV
    /\ n_slots = ChainNSlots
    /\ dwell_times \in { [v \in Venues |-> 1],
                         [v \in Venues |-> IF v = n_venues THEN 4 ELSE 1] }
    /\ dwell_slots = [v \in Venues |-> DwellSlotsOf(dwell_times[v])]
    /\ venue_open_slots = OpenSlotsOf([v \in {} |-> {}])
    /\ travel_times \in { TravelEmpty, TravelSparse, TravelUniform,
                         TravelFromFirst, TravelLate }
    /\ crowd_levels = CrowdEmpty
    /\ tour_start_slot = 0 /\ tour_end_slot = n_slots - 1
    /\ division = "exact"
    /\ Constructed
    /\ all_solutions = << >>
    /\ pareto_solutions = NotCalled
    /\ NoAnalysis

SpecChain == InitChain /\ [][Next]_vars

\* the constructor on the catalogues of up to ExplorerMinVenues venues, all
\* open all day, with either quotient of the CP library
InitObjective ==
    /\ n_venues \in 1..ExplorerMinVenues
    /\ n_slots = ChainNSlots
    /\ dwell_times \in { [v \in Venues |-> 1],
                         [v \in Venues |-> IF v = 1 THEN 4 ELSE 1] }
    /\ dwell_slots = [v \in Venues |-> DwellSlotsOf(dwell_times[v])]
    /\ venue_open_slots = OpenSlotsOf([v \in {} |-> {}])
    /\ travel_times \in { TravelEmpty, TravelVarying }
    /\ crowd_levels \in CrowdTableChoices
    /\ tour_start_slot = 0 /\ tour_end_slot = n_slots - 1
    /\ division \in { "exact", "integer" }
    /\ Constructed
    /\ all_solutions = << >>
    /\ pareto_solutions = NotCalled
    /\ NoAnalysis

\* the explorer: one call of run_model_with_weights after the other
NextExplorer == \E w \in WeightChoices : run_model_with_weights(w)

SpecExplorer == InitObjective /\ [][NextExplorer]_vars

\* one optimizer, configured by its two setters and solved
NextConfig ==
    \/ \E m \in MinVenuesArgs : set_min_venues(m)
    \/ \E w \in WeightChoices : set_objective_weights(w)
    \/ solve_no_solution
    \/ solve_optimal

SpecConfig == InitObjective /\ [][NextConfig]_vars

\* solve() called with a time budget, between changes of the floor
NextBudget ==
    \/ \E m \in MinVenuesArgs : set_min_venues(m)
    \/ \E time_limit \in TimeLimitArgs : solve_within(time_limit)

SpecBudget == Init /\ [][NextBudget]_vars

\* ---------------------------------------------------------- Pareto filter
\* a < b, a <= b on the quotients num / den (den > 0)
RatLess(a, b) == a.num * b.den < b.num * a.den
RatLessEq(a, b) == a.num * b.den <= b.num * a.den

\* variant of is_pareto_optimal: more venues count as worse
is_pareto_optimal_venues_reversed(k, solutions) ==
    LET metrics == solutions[k].metrics
    IN  ~ \E o \in 1..Len(solutions) :
            /\ o # k
            /\ LET other_metrics == solutions[o].metrics
               IN  /\ other_metrics.total_travel_time_minutes
                          <= metrics.total_travel_time_minutes
                   /\ RatLessEq(other_metrics.average_crowd_level,
                                metrics.average_crowd_level)
                   /\ other_metrics.total_venues <= metrics.total_venues
                   /\ \/ other_metrics.total_travel_time_minutes
                             < metrics.total_travel_time_minutes
                      \/ RatLess(other_metrics.average_crowd_level,
                                 metrics.average_crowd_level)
                      \/ other_metrics.total_venues < metrics.total_venues

\* variant of is_pareto_optimal: a candidate that is no worse in every
\* objective excludes the other one, without being better in any
is_pareto_optimal_not_strict(k, solutions) ==
    LET metrics == solutions[k].metrics
    IN  ~ \E o \in 1..Len(solutions) :
            /\ o # k
            /\ LET other_metrics == solutions[o].metrics
               IN  /\ other_metrics.total_travel_time_minutes
                          <= metrics.total_travel_time_minutes
                   /\ RatLessEq(other_metrics.average_crowd_level,
                                metrics.average_crowd_level)
                   /\ other_metrics.total_venues >= metrics.total_venues

\* is_pareto_optimal(solutions[k], solutions); the elements of the list are
\* distinct objects, so `other is solution` holds at index k only
is_pareto_optimal(k, solutions) ==
    LET metrics == solutions[k].metrics
    IN  ~ \E o \in 1..Len(solutions) :
            /\ o # k
            /\ LET other_metrics == solutions[o].metrics
               IN  /\ other_metrics.total_travel_time_minutes
                          <= metrics.total_travel_time_minutes
                   /\ RatLessEq(other_metrics.average_crowd_level,
                                metrics.average_crowd_level)
                   /\ other_metrics.total_venues >= metrics.total_venues
                   /\ \/ other_metrics.total_travel_time_minutes
                             < metrics.total_travel_time_minutes
                      \/ RatLess(other_metrics.average_crowd_level,
                                 metrics.average_crowd_level)
                      \/ other_metrics.total_venues > metrics.total_venues

\* [s for s in solutions if is_pareto_optimal(s, solutions)]
RECURSIVE pareto_from(_, _)
pareto_from(k, solutions) ==
    IF k > Len(solutions) THEN << >>
    ELSE IF is_pareto_optimal(k, solutions)
         THEN << solutions[k] >> \o pareto_from(k + 1, solutions)
         ELSE pareto_from(k + 1, solutions)

identify_pareto_optimal_solutions(solutions) == pareto_from(1, solutions)

\* the metrics of the candidates: two travel totals, three averages of
\* which two are the same number, two venue counts
CandidateMetrics ==
    [total_travel_time_minutes : {0, 30},
     average_crowd_level : { [num |-> 0, den |-> 1], [num |-> 1, den |-> 2],
                             [num |-> 2, den |-> 4] },
     total_venues : {1, 2}]

Candidates == [metrics : CandidateMetrics]

CandidateLists == UNION { [1..n -> Candidates] : n \in 0..MaxSolutions }

\* the filter is called once on the list collected
identify ==
    /\ pareto_solutions = NotCalled
    /\ pareto_solutions' =
           [kind |-> "list",
            items |-> identify_pareto_optimal_solutions(all_solutions)]
    /\ UNCHANGED << inputs, min_venues, weights, model, x_val, t_val, p_val,
                    outcome, result, all_solutions, solver_call, analysis >>

InitPareto ==
    /\ n_venues = 1
    /\ n_slots = NSlots
    /\ dwell_times = [v \in Venues |-> 1]
    /\ dwell_slots = [v \in Venues |-> DwellSlotsOf(dwell_times[v])]
    /\ venue_open_slots = OpenSlotsOf([v \in {} |-> {}])
    /\ travel_times = TravelEmpty
    /\ crowd_levels = CrowdEmpty
    /\ tour_start_slot = 0 /\ tour_end_slot = n_slots - 1
    /\ division = "exact"
    /\ Constructed
    /\ all_solutions \in CandidateLists
    /\ pareto_solutions = NotCalled
    /\ NoAnalysis

NextPareto == identify

SpecPareto == InitPareto /\ [][NextPareto]_vars

\* ---------------------------------------------------- run_pareto_analysis
\* generate_weight_combinations(2): the grid of np.linspace(0.1, 1.0, 2) for
\* travel and crowd and np.linspace(-1, -20, 2) for venues, in tenths, in the
\* order of the three nested loops; the first NTasks of them are run
weight_grid(k) ==
    [w_travel |-> IF (k - 1) \div 4 = 0 THEN 1 ELSE 10,
     w_crowd |-> IF ((k - 1) \div 2) % 2 = 0 THEN 1 ELSE 10,
     w_venues |-> IF (k - 1) % 2 = 0 THEN 0 - 10 ELSE 0 - 200]

weight_combinations == [k \in 1..NTasks |-> weight_grid(k)]

\* a work item that no worker has taken yet
QueuedTask ==
    [state |-> "queued", optimizer |-> NotCalled, result |-> NotCalled]

\* the optimizer that run_model_with_weights builds in the worker process:
\* a new TourOptimizer, set_min_venues(3), then the weights assigned
worker_optimizer(w) ==
    [min_venues |-> Max(1, ExplorerMinVenues),
     model |-> BuildModelWith(Max(1, ExplorerMinVenues), DefaultWeights),
     w_travel |-> w.w_travel, w_crowd |-> w.w_crowd, w_venues |-> w.w_venues]

\* the metrics of the solutions the workers return
TaskMetrics ==
    { m \in CandidateMetrics :
          /\ m.average_crowd_level = [num |-> 1, den |-> 2]
          /\ (m.total_travel_time_minutes = 0) <=> (m.total_venues = 1) }

\* what run_model_with_weights returns for the weights w: None, or a
\* solution tagged with w
WorkerReturns(w) ==
    { None } \cup { [kind |-> "dict", metrics |-> m, weights |-> w] :
                        m \in TaskMetrics }

\* the variables of the single optimizer, which the analysis does not use
optimizer_vars ==
    << inputs, min_venues, weights, model, x_val, t_val, p_val, outcome,
       result, solver_call >>

Running == { k \in DOMAIN tasks : tasks[k].state = "running" }
Ended(k) == tasks[k].state \in { "done", "failed" }

\* a free worker process takes the oldest work item of the queue and builds
\* its optimizer
worker_start(k) ==
    /\ phase = "mapping"
    /\ tasks[k].state = "queued"
    /\ \A j \in 1..(k - 1) : tasks[j].state # "queued"
    /\ Cardinality(Running) < MaxWorkers
    /\ tasks' = [tasks EXCEPT
                    ![k].state = "running",
                    ![k].optimizer = worker_optimizer(weight_combinations[k])]
    /\ UNCHANGED << optimizer_vars, pareto, completion, yielded, phase >>

\* the worker solves and returns from run_model_with_weights
worker_finish(k) ==
    /\ tasks[k].state = "running"
    /\ \E r \in WorkerReturns(weight_combinations[k]) :
           tasks' = [tasks EXCEPT ![k].state = "done", ![k].result = r]
    /\ completion' = Append(completion, k)
    /\ UNCHANGED << optimizer_vars, pareto, yielded, phase >>

\* run_model_with_weights raises in the worker (outside solve(), which
\* catches what it raises itself)
worker_raise(k) ==
    /\ tasks[k].state = "running"
    /\ tasks' = [tasks EXCEPT ![k].state = "failed"]
    /\ completion' = Append(completion, k)
    /\ UNCHANGED << optimizer_vars, pareto, yielded, phase >>

\* the loop body for the result of work item k: a solution is appended,
\* None is passed over, and the exception of a worker is raised again
take_result(k) ==
    /\ phase = "mapping"
    /\ Ended(k)
    /\ IF tasks[k].state = "failed"
       THEN /\ phase' = "raised"
            /\ UNCHANGED << yielded, all_solutions >>
       ELSE /\ phase' = phase
            /\ yielded' = Append(yielded, k)
            /\ all_solutions' =
                   IF tasks[k].result.kind = "dict"
                   THEN Append(all_solutions, tasks[k].result)
                   ELSE all_solutions
    /\ UNCHANGED << optimizer_vars, pareto_solutions, tasks, completion >>

\* variant of collect_next: the results are taken as they become ready
collect_as_completed ==
    \E k \in DOMAIN tasks :
        /\ \A q \in 1..Len(yielded) : yielded[q] # k
        /\ take_result(k)

\* for solution in executor.map(worker_run_model, worker_args): the next
\* result is the one of the next work item in the order of submission, and
\* the loop waits for it
collect_next ==
    \E k \in { Len(yielded) + 1 } \cap DOMAIN tasks : take_result(k)

\* after the loop: identify_pareto_optimal_solutions(all_solutions)
filter_collected ==
    /\ phase = "mapping"
    /\ Len(yielded) = Len(tasks)
    /\ pareto_solutions' =
           [kind |-> "list",
            items |-> identify_pareto_optimal_solutions(all_solutions)]
    /\ phase' = "filtered"
    /\ UNCHANGED << optimizer_vars, all_solutions, tasks, completion,
                    yielded >>

\* run_pareto_analysis has submitted its work items to the pool
InitAnalysis ==
    /\ n_venues = 1
    /\ n_slots = NSlots
    /\ dwell_times = [v \in Venues |-> 1]
    /\ dwell_slots = [v \in Venues |-> DwellSlotsOf(dwell_times[v])]
    /\ venue_open_slots = OpenSlotsOf([v \in {} |-> {}])
    /\ travel_times = TravelEmpty
    /\ crowd_levels = CrowdEmpty
    /\ tour_start_slot = 0 /\ tour_end_slot = n_slots - 1
    /\ division = "exact"
    /\ Constructed
    /\ solver_call = NotCalled
    /\ all_solutions = << >>
    /\ pareto_solutions = NotCalled
    /\ tasks = [k \in 1..NTasks |-> QueuedTask]
    /\ completion = << >>
    /\ yielded = << >>
    /\ phase = "mapping"

NextAnalysis ==
    \/ \E k \in DOMAIN tasks : worker_start(k)
    \/ \E k \in DOMAIN tasks : worker_finish(k)
    \/ \E k \in DOMAIN tasks : worker_raise(k)
    \/ collect_next
    \/ filter_collected

SpecAnalysis == InitAnalysis /\ [][NextAnalysis]_vars


\* ----------------------------------------------------------------- claims
\* the solver returned an assignment (whether or not formatting it raised)
Solved == outcome \in {"solution", "exception"}

Selected == { i \in Venues : x_val[i] }
EndSlot(i) == t_val[i] + dwell_slots[i]
HasGap(vs) == \E s \in Slots : s \notin vs /\ SetMin(vs) < s /\ s < SetMax(vs)

\* least k with k * SlotMinutes >= minutes
CeilSlots(minutes) ==
    CHOOSE k \in 0..minutes :
        /\ k * SlotMinutes >= minutes
        /\ \A q \in 0..minutes : q * SlotMinutes >= minutes => k <= q

\* j comes right after i in position order, both selected
Consecutive(i, j) ==
    /\ i \in Selected /\ j \in Selected /\ i # j
    /\ p_val[j] = p_val[i] + 1

\* C1: in every assignment satisfying the constraints, every slot of a
\* selected venue's dwell interval [t, t + dwell) is in the venue's valid-slot
\* list for the active day, also when the list has a closed period inside
C1_DwellInsideValidSlots ==
    Solved =>
        \A i \in Selected :
            \A s \in t_val[i]..(EndSlot(i) - 1) : s \in valid_slots(i)

C1_Witness ==
    /\ Solved
    /\ \E i \in Selected :
           /\ HasGap(valid_slots(i))
           /\ dwell_slots[i] = 2
           /\ \E j \in Selected : j # i

\* C2: in every assignment satisfying the constraints, every selected venue
\* starts at or after tour_start_slot and ends at or before tour_end_slot
C2_TourWindowContainment ==
    Solved =>
        \A i \in Selected :
            /\ t_val[i] >= tour_start_slot
            /\ EndSlot(i) <= tour_end_slot

\* C3: position 0 exactly for the unselected venues, and the positions of
\* the k selected venues are a permutation of 1..k
C3_PositionsArePermutation ==
    Solved =>
        LET k == Cardinality(Selected)
        IN  /\ \A i \in Venues : (p_val[i] = 0) <=> (i \notin Selected)
            /\ { p_val[i] : i \in Selected } = 1..k
            /\ \A i \in Selected : \A j \in Selected :
                   (p_val[i] = p_val[j]) => (i = j)
            /\ \A i \in Venues : p_val[i] <= k

C3_Witness ==
    /\ Solved
    /\ Cardinality(Selected) = 2
    /\ \E i \in Selected : \E j \in Selected : i < j /\ p_val[j] < p_val[i]

\* C4: the dwell intervals of two distinct selected venues never overlap,
\* whatever their positions
C4_PairwiseNonOverlap ==
    Solved =>
        \A i \in Selected : \A j \in Selected :
            (i # j) => (EndSlot(i) <= t_val[j] \/ EndSlot(j) <= t_val[i])

C4_Witness ==
    /\ Solved
    /\ \E i \in Selected : \E j \in Selected :
           i # j /\ EndSlot(i) = t_val[j] /\ p_val[i] > p_val[j]

\* C5: a selected venue j placed right after i, where the travel table has
\* an entry for departure at the slot at which i ends, starts no earlier
\* than i's end plus the entry's minutes rounded up to whole slots
C5_SequentialTravel ==
    Solved =>
        \A i \in Venues : \A j \in Venues :
            (Consecutive(i, j) /\ <<i, j, EndSlot(i)>> \in DOMAIN travel_times)
                => t_val[j] >= EndSlot(i)
                                 + CeilSlots(travel_times[<<i, j, EndSlot(i)>>])

C5_Witness ==
    /\ Solved
    /\ \E i \in Venues : \E j \in Venues :
           /\ Consecutive(i, j)
           /\ <<i, j, EndSlot(i)>> \in DOMAIN travel_times
           /\ travel_times[<<i, j, EndSlot(i)>>] % SlotMinutes # 0

\* C6: every assignment satisfying the constraints selects at least
\* min_venues venues, and min_venues is never below 1, whatever was passed
\* to set_min_venues: an assignment selecting no venue is never feasible
C6_MinimumVenueFloor ==
    /\ min_venues >= 1
    /\ model.min_venues = min_venues
    /\ Solved => ( /\ Cardinality(Selected) >= min_venues
                   /\ Cardinality(Selected) >= 1 )

C6_Witness ==
    /\ Solved
    /\ min_venues = 2
    /\ Cardinality(Selected) = 2

\* C7: a venue whose valid-slot list is empty, or that has no key in a
\* non-empty table, is unselected in every assignment satisfying the
\* constraints; the model is built and the other venues stay selectable
C7_ClosedVenueUnselected ==
    Solved => \A i \in Venues : (valid_slots(i) = {}) => (i \notin Selected)

C7_Witness ==
    /\ Solved
    /\ \E i \in Venues : i \notin DOMAIN venue_open_slots
    /\ Selected # {}
    /\ min_venues = 1


\* C8: a consecutive selected pair without a travel entry at the slot at
\* which the first one ends is treated as one slot (30 minutes) of travel,
\* never as zero: the second starts at least one slot after the first ends,
\* and the reported total travel time counts the 30 minutes of that edge
MissingEdge(i, j) ==
    /\ Consecutive(i, j)
    /\ <<i, j, EndSlot(i)>> \notin DOMAIN travel_times

C8_MissingEdgeDefault ==
    Solved =>
        \A i \in Venues : \A j \in Venues :
            MissingEdge(i, j) =>
                /\ t_val[j] >= EndSlot(i) + 1
                /\ (outcome = "solution") =>
                       result.metrics.total_travel_time_minutes >= SlotMinutes

\* the largest number of venues that can be placed together: each inside
\* its valid slots and inside the tour window, no two overlapping
Placeable(S) ==
    \E tt \in [S -> Slots] :
        /\ \A i \in S :
               /\ \A s \in tt[i]..(tt[i] + dwell_slots[i] - 1) : s \in valid_slots(i)
               /\ tt[i] >= tour_start_slot
               /\ tt[i] + dwell_slots[i] <= tour_end_slot
        /\ \A i \in S : \A j \in S :
               (i # j) => \/ tt[i] + dwell_slots[i] <= tt[j]
                          \/ tt[j] + dwell_slots[j] <= tt[i]

FitCount ==
    LET sizes == { Cardinality(S) : S \in { T \in SUBSET Venues : Placeable(T) } }
    IN  SetMax(sizes)

\* C9: when min_venues exceeds the number of venues that fit together, the
\* model has no satisfying assignment and solve() returns None
C9_FloorAboveFitGivesNone ==
    (outcome # "none" /\ min_venues > FitCount) =>
        (outcome = "no_solution" /\ result = None)

\* C10: a solve that ends in an exception does not return the value that a
\* solve without feasible assignment returns
C10_ErrorDistinctFromInfeasible ==
    (outcome = "exception") => (result # None)

\* the visits of the returned schedule, in the order listed
Returned == result.kind = "dict"
Visits == result.schedule

\* C11: in every returned schedule the visits are listed in ascending start
\* time and do not overlap: a visit ends at or before the start of the visit
\* listed after it, with a complete table as with a sparse one
C11_ScheduleOrdered ==
    Returned =>
        /\ \A k \in 1..(Len(Visits) - 1) :
               /\ Visits[k].start_time <= Visits[k + 1].start_time
               /\ Visits[k].end_time <= Visits[k + 1].start_time
        /\ \A a \in 1..Len(Visits) : \A b \in 1..Len(Visits) :
               (a # b) => \/ Visits[a].end_time <= Visits[b].start_time
                          \/ Visits[b].end_time <= Visits[a].start_time

C13_VisitInsideValidSlots ==
    Returned =>
        \A k \in 1..Len(Visits) :
            /\ \A s \in Visits[k].start_time..(Visits[k].end_time - 1) :
                   s \in valid_slots(Visits[k].venue)
            /\ Visits[k].end_time - Visits[k].start_time
                   = dwell_slots[Visits[k].venue]

\* C14: on an assignment that satisfies the constraints the repair changes
\* nothing: every selected venue is listed, in position order, at the start
\* slot the solver gave it, and no visit carries a warning
C14_RepairIsNoOp ==
    Solved =>
        /\ outcome = "solution"
        /\ Len(Visits) = Cardinality(Selected)
        /\ \A k \in 1..Len(Visits) :
               /\ Visits[k].venue = result.selected_venues[k]
               /\ Visits[k].start_time = t_val[Visits[k].venue]
               /\ Visits[k].warning = "none"

\* A dominates B: no worse in travel time, average crowd and venue count,
\* better in at least one of them
Dominates(A, B) ==
    /\ A.metrics.total_travel_time_minutes <= B.metrics.total_travel_time_minutes
    /\ RatLessEq(A.metrics.average_crowd_level, B.metrics.average_crowd_level)
    /\ A.metrics.total_venues >= B.metrics.total_venues
    /\ ~ ( /\ A.metrics.total_travel_time_minutes
                  >= B.metrics.total_travel_time_minutes
           /\ RatLessEq(B.metrics.average_crowd_level,
                        A.metrics.average_crowd_level)
           /\ A.metrics.total_venues <= B.metrics.total_venues )

Filtered == pareto_solutions.kind = "list"
InputSet == { all_solutions[k] : k \in 1..Len(all_solutions) }
ReturnedSet ==
    { pareto_solutions.items[k] : k \in 1..Len(pareto_solutions.items) }

\* C15: the Pareto filter returns exactly the candidates that no candidate
\* of the input list dominates: nothing returned is dominated, and every
\* dominated candidate is left out
C15_ParetoFilterExact ==
    Filtered =>
        /\ \A r \in ReturnedSet : r \in InputSet
        /\ \A r \in ReturnedSet : \A o \in InputSet : ~ Dominates(o, r)
        /\ \A c \in InputSet :
               (\E o \in InputSet : Dominates(o, c)) => c \notin ReturnedSet
        /\ \A c \in InputSet :
               (\A o \in InputSet : ~ Dominates(o, c)) => c \in ReturnedSet

C15_Witness ==
    /\ Filtered
    /\ Len(all_solutions) = MaxSolutions
    /\ Len(pareto_solutions.items) = 2
    /\ \E a \in 1..Len(all_solutions) : \E b \in 1..Len(all_solutions) :
           /\ a # b
           /\ all_solutions[a] # all_solutions[b]
           /\ all_solutions[a].metrics.total_travel_time_minutes
                  = all_solutions[b].metrics.total_travel_time_minutes
           /\ all_solutions[a].metrics.total_venues
                  = all_solutions[b].metrics.total_venues
           /\ ~ RatLess(all_solutions[a].metrics.average_crowd_level,
                        all_solutions[b].metrics.average_crowd_level)
           /\ ~ RatLess(all_solutions[b].metrics.average_crowd_level,
                        all_solutions[a].metrics.average_crowd_level)
           /\ all_solutions[a] \in ReturnedSet
           /\ all_solutions[b] \in ReturnedSet

\* the returned solution carries the weights it was asked for
Tagged == Returned /\ "weights" \in DOMAIN result

\* C16: the objective minimized by the solve that run_model_with_weights
\* issues for a weight triple is built from that triple: the weights tagged
\* on the returned solution are the weights of the model's objective
C16_ExplorerObjectiveUsesWeights ==
    Tagged => model.objective = result.weights

\* C17: whatever calls of set_min_venues and set_objective_weights were
\* made, the model that the next solve() hands to the solver has each
\* constraint family once, the floor last set, the objective built from the
\* weights last set (the defaults when none was), and constraints and
\* objective on the same decision variables
C17_ConfigurationConsistent ==
    /\ model.families = [time_window |-> 1, sequence |-> 1, overlap |-> 1]
    /\ model.min_venues = min_venues
    /\ model.objective = current_weights
    /\ model.constraint_vars = "current"
    /\ model.objective_vars = "current"

C17_Witness ==
    /\ outcome = "solution"
    /\ min_venues = 2
    /\ current_weights # DefaultWeights
    /\ model.objective = current_weights
    /\ Cardinality(Selected) = 2

\* C18: a solve returns what every solve of the same venues, tables, tour
\* window, weights and floor returns: among the assignments with the least
\* objective it is always the same one that is formatted
C18_SolveDeterministic ==
    (outcome = "solution") =>
        \A a \in OptimalAmong(SatisfyingAssignments, model.objective) :
            /\ ~ format_solution(a.x, a.t, a.p).raised
            /\ format_solution(a.x, a.t, a.p).value = result

\* the catalogue is one venue, open in every slot, the tour window is the
\* whole grid and both tables are empty
SingleVenueScenario ==
    /\ n_venues = 1
    /\ valid_slots(1) = Slots
    /\ tour_start_slot = 0 /\ tour_end_slot = n_slots - 1
    /\ travel_times = TravelEmpty /\ crowd_levels = CrowdEmpty

\* C19: in the single-venue scenario every assignment satisfying the
\* constraints is returned as a schedule of exactly that venue, with no
\* travel to a next visit and an average crowd level of 0
C19_SingleVenueSchedule ==
    (SingleVenueScenario /\ Solved) =>
        /\ Returned
        /\ Len(Visits) = 1
        /\ Visits[1].venue = 1
        /\ Visits[1].travel_time_to_next = NoTravel
        /\ Visits[1].crowd_level_avg.num = 0

\* every venue of the catalogue can be scheduled in one tour
AllFit ==
    \E p \in [Venues -> 1..n_venues] : \E t \in [Venues -> Slots] :
        add_constraints([v \in Venues |-> TRUE], t, p)

\* C20: with the default weights and a catalogue of at most 3 venues that
\* fit in one tour, every assignment with the least objective selects every
\* venue: selected_venues is the whole catalogue and the schedule has one
\* visit for each venue
C20_DefaultWeightsSelectAll ==
    (Solved /\ model.objective = DefaultWeights /\ n_venues <= 3) =>
        \/ /\ Selected = Venues
           /\ Returned
           /\ { result.selected_venues[k] :
                    k \in 1..Len(result.selected_venues) } = Venues
           /\ Len(Visits) = n_venues
           /\ { Visits[k].venue : k \in 1..Len(Visits) } = Venues
        \/ ~ AllFit

\* the venues in the order in which _format_solution goes through them, and
\* how the iteration for the venue at index idx of that order ends
Ordered == ordered_indices(x_val, p_val)
IterationOf(idx) == format_visit(idx, Ordered, t_val)
Listed(v) == \E k \in 1..Len(Visits) : Visits[k].venue = v
VisitOf(v) == Visits[CHOOSE k \in 1..Len(Visits) : Visits[k].venue = v]

\* the annotations a caller can read in the returned dictionary are the
\* warnings of its visits: the venues that carry one
Annotated == { Visits[k].venue : k \in { q \in 1..Len(Visits) :
                                            Visits[q].warning # "none" } }

\* C21: when the repaired start of a venue makes its visit run past the
\* horizon, a result is returned in which that venue is not listed, every
\* venue whose visit stays inside the horizon is listed, and the omitted
\* venue is marked by an annotation of the result
C21_DroppedVenueFlagged ==
    Solved =>
        \A idx \in 1..Len(Ordered) :
            (IterationOf(idx).status # "visit") =>
                /\ Returned
                /\ ~ Listed(Ordered[idx])
                /\ \A o \in 1..Len(Ordered) :
                       (IterationOf(o).status = "visit") => Listed(Ordered[o])
                /\ Ordered[idx] \in Annotated

\* C22: the visit listed last in a returned schedule has no travel time to
\* a next visit, also when a venue after it in position order was dropped
C22_LastVisitNoTravel ==
    (Returned /\ Len(Visits) > 0) =>
        Visits[Len(Visits)].travel_time_to_next = NoTravel

\* C23: a venue listed after another one starts at the later of its raw
\* start and the end at which the venue before it is listed plus the travel
\* slots of the table entry for departure at that end
C23_RepairFromMovedEnd ==
    Returned =>
        \A idx \in 2..Len(Ordered) :
            (Listed(Ordered[idx - 1]) /\ Listed(Ordered[idx])) =>
                LET prev == VisitOf(Ordered[idx - 1])
                    here == VisitOf(Ordered[idx])
                    key == <<prev.venue, here.venue, prev.end_time>>
                IN  (key \in DOMAIN travel_times) =>
                        here.start_time
                            = Max(t_val[here.venue],
                                  prev.end_time
                                      + travel_slots_of(travel_times[key]))

\* the travel minutes of the table for departure at the slot at which the
\* predecessor ends, summed over the selected pairs at consecutive positions
TravelByEndSlot ==
    SumOver(travel_times,
            { k \in DOMAIN travel_times :
                  Consecutive(k[1], k[2]) /\ k[3] = EndSlot(k[1]) })

CurrentAssignment == [x |-> x_val, t |-> t_val, p |-> p_val]

\* C24: the travel term of the objective is the travel minutes keyed by the
\* slot at which the predecessor ends, and it is the total travel time
\* reported for the assignment
C24_ObjectiveTravelIsReported ==
    Solved =>
        /\ objective_travel(CurrentAssignment) = TravelByEndSlot
        /\ Returned =>
               objective_travel(CurrentAssignment)
                   = result.metrics.total_travel_time_minutes

\* C27: the three views of a returned result agree: the schedule lists the
\* venues of selected_venues in the same order, start_times has one entry
\* for each selected venue, and total_venues is the number of visits
C27_ViewsAgree ==
    Returned =>
        /\ Len(Visits) = Len(result.selected_venues)
        /\ \A k \in 1..Len(Visits) :
               Visits[k].venue = result.selected_venues[k]
        /\ DOMAIN result.start_times
               = { result.selected_venues[k] :
                       k \in 1..Len(result.selected_venues) }
        /\ result.metrics.total_venues = Len(Visits)

\* C28: in every assignment satisfying the constraints a selected venue at
\* a lower position ends at or before the start of every selected venue at
\* a higher position
C28_PositionOrderIsChronological ==
    Solved =>
        \A i \in Selected : \A j \in Selected :
            (p_val[i] < p_val[j]) => (EndSlot(i) <= t_val[j])

\* the slots [t, t + dwell) of a visit of v are valid slots of v and slots of
\* the tour window
Fits(v, t) ==
    /\ \A s \in t..(t + dwell_slots[v] - 1) :
           /\ s \in valid_slots(v)
           /\ tour_start_slot <= s /\ s <= tour_end_slot

\* C29: every start at which the visit of a venue fits its own valid slots
\* and the tour window is the start of that venue in some assignment that
\* satisfies the constraints and selects that venue alone, whatever other
\* venues the catalogue holds
C29_StartSlotsOwnVenueOnly ==
    (model.min_venues <= 1) =>
        \A v \in Venues : \A t \in Slots :
            Fits(v, t) =>
                \E a \in SatisfyingAssignments :
                    /\ a.x = [i \in Venues |-> i = v]
                    /\ a.t[v] = t

\* two candidates with the same travel time, average crowd and venue count
SameTriple(A, B) ==
    /\ A.metrics.total_travel_time_minutes = B.metrics.total_travel_time_minutes
    /\ RatLessEq(A.metrics.average_crowd_level, B.metrics.average_crowd_level)
    /\ RatLessEq(B.metrics.average_crowd_level, A.metrics.average_crowd_level)
    /\ A.metrics.total_venues = B.metrics.total_venues

\* how many elements of the list have the triple of c
TripleCount(list, c) ==
    Cardinality({ k \in 1..Len(list) : SameTriple(list[k], c) })

\* sub is list with some elements left out
IsSubsequence(sub, list) ==
    \E f \in [1..Len(sub) -> 1..Len(list)] :
        /\ \A a \in 1..Len(sub) : \A b \in 1..Len(sub) :
               (a < b) => (f[a] < f[b])
        /\ \A a \in 1..Len(sub) : sub[a] = list[f[a]]

\* C30: on a non-empty list the Pareto filter returns a non-empty list, in
\* the relative order of the input, and the candidates with one and the same
\* triple are all returned or all left out
C30_ParetoFilterShape ==
    (Filtered /\ Len(all_solutions) > 0) =>
        /\ Len(pareto_solutions.items) > 0
        /\ IsSubsequence(pareto_solutions.items, all_solutions)
        /\ \A c \in InputSet :
               \/ TripleCount(pareto_solutions.items, c) = 0
               \/ TripleCount(pareto_solutions.items, c)
                      = TripleCount(all_solutions, c)

C30_Witness ==
    /\ Filtered
    /\ Len(all_solutions) >= 3
    /\ Len(pareto_solutions.items) = 2
    /\ pareto_solutions.items[1] # pareto_solutions.items[2]
    /\ SameTriple(pareto_solutions.items[1], pareto_solutions.items[2])
    /\ all_solutions[1] \notin ReturnedSet

\* C26: the solver run that solve(time_limit=...) starts is given that
\* time budget
C26_SolverGivenTimeBudget ==
    (solver_call # NotCalled) =>
        <<"time_limit", solver_call.time_limit>> \in solver_call.solver_args

\* the solutions returned for the first n work items, in their order
SolutionsOf(n) ==
    SelectSeq([k \in 1..n |-> tasks[k].result],
              LAMBDA r : r.kind = "dict")

\* C25: the filter runs only when every work item has ended; the list
\* collected holds the solutions returned for the work items taken so far,
\* in the order of the weight combinations whatever the order in which the
\* workers ended; and the optimizer and the solution of a work item are the
\* ones of its own weights
C25_AnalysisAggregation ==
    /\ (phase = "filtered") =>
           /\ \A k \in DOMAIN tasks : tasks[k].state = "done"
           /\ all_solutions = SolutionsOf(Len(tasks))
    /\ (phase # "none") =>
           /\ yielded = [k \in 1..Len(yielded) |-> k]
           /\ all_solutions = SolutionsOf(Len(yielded))
    /\ \A k \in DOMAIN tasks :
           /\ (tasks[k].state # "queued") =>
                  tasks[k].optimizer = worker_optimizer(weight_combinations[k])
           /\ (tasks[k].result.kind = "dict") =>
                  tasks[k].result.weights = weight_combinations[k]

C25_Witness ==
    /\ phase = "filtered"
    /\ completion[1] # 1
    /\ completion[Len(completion)] # Len(tasks)
    /\ Len(all_solutions) = Len(tasks) - 1
    /\ \E k \in DOMAIN tasks : tasks[k].result = None

====
